---- MODULE Spec2Model ----
(***************************************************************************)
(* Model of src/api.py: the Flask control service that drives a Chrome     *)
(* instance through its remote-debugging port.                             *)
(*                                                                         *)
(* The state machines of the module:                                       *)
(*   Spec            one guarded command at a time: the handle_alerts      *)
(*                   wrapper around click_element, double_click_element,   *)
(*                   go_to_url, type_input, inspect_element, scroll_page,  *)
(*                   drag_element and look;                                *)
(*   SpecSupervisor  the unguarded start_browser command with              *)
(*                   close_chrome_gracefully and kill_chrome_processes;    *)
(*   SpecRing        the console override of the start-up shim alone;      *)
(*   SpecConsole     the page, get_console_log, clear_console_log and      *)
(*                   navigation;                                           *)
(*   SpecUrl         the URL normalisation of go_to_url on its inputs;     *)
(*   SpecStable      establish_stable_connection, call by call;            *)
(*   SpecClick       clicks by coordinates while the window moves;         *)
(*   SpecFill        the console buffer filled up to its limit;            *)
(*   SpecRace        two click_element calls served at the same time.      *)
(*                                                                         *)
(* Optional request fields (data.get(...) returning None) are sequences of *)
(* length 0 or 1: <<>> is None, <<v>> is the value v.                      *)
(***************************************************************************)
EXTENDS Integers, Sequences, FiniteSets, TLC

(***************************************************************************)
(* Program constants.                                                      *)
(***************************************************************************)
\* kwargs.get('debugging_port', 9222): the well-known default port.
DefaultPort == 9222

\* A second debugging port a caller may name in its request.
OtherPort == DefaultPort + 1

Ports == {DefaultPort, OtherPort}

\* The loop bound off by one.
max_attempts_off == 3 + 1

\* handle_alerts: max_attempts = 3.
max_attempts == 3

\* click_element: max_retries = 3.
max_retries == 3

\* establish_stable_connection(debugging_port, max_retries=3).
stable_max_retries == 3

None == <<>>

Some(v) == <<v>>

\* Python truthiness of an optional string: None and "" are falsy.
Truthy(o) == o # None /\ o[1] # ""

(***************************************************************************)
(* State.                                                                  *)
(***************************************************************************)
VARIABLES
    browser,     \* browser[p]: "down" (nothing listens on p), "up", or "mute"
                 \* (accepts the connection and never answers)
    dialog,      \* dialog[p]: "open" when a native dialog blocks the page
    dialogLog,   \* how dialogs were closed: set of [port, how]
    pc,          \* position of the guarded command
    req,         \* the request of the command in flight
    attempt,     \* handle_alerts: the loop variable `attempt`
    driver,      \* handle_alerts: the port `driver` is attached to, or None
    opc,         \* position inside the wrapped function
    inner,       \* click_element: the loop variable `attempt` of its own loop
    result,      \* HTTP status the command returned, "none" while in flight
    swallowed,   \* exceptions handle_alerts caught and retried
    propagated,  \* the exception handle_alerts re-raised, or None
    connects,    \* webdriver.Chrome(...) calls made by this command
    events,      \* OS-level input events dispatched by this command
    body,        \* the JSON object look or go_to_url returned
    capture,     \* the capture calls look made for that object
    tally,       \* what this command did so far: the runs of the body of
                 \* the action, how the last one ended, whether the
                 \* handle in use passed a readyState probe, and the
                 \* handles go_to_url opened and did not quit
    spc,         \* position of the start_browser command
    call,        \* the start_browser call in flight, and what it did
    resp,        \* the response of start_browser
    fresh,       \* fresh[p]: start_browser(p) succeeded and the browser on p
                 \* has not been closed or killed since
    sessionData, \* the profile directory holds session files
    logs,        \* window._consoleLogs of the page: None while undefined
    hooks,       \* the console overrides installed in the page, innermost
                 \* first
    pushed,      \* entries pushed into window._consoleLogs so far
    lost,        \* a console call of the page reached no override
    trail,       \* the reads and clears since the page last changed
    carried,     \* the entries the buffer held at the last navigation
    stable,      \* the call of establish_stable_connection in flight: its
                 \* arguments, its loop variable, and the calls it made
    window,      \* window[p]: where the window of the browser on port p is
                 \* on the screen, as driver.get_window_rect() reports it
    workers,     \* workers[t]: the click_element call that thread t of the
                 \* server is serving, and how far it got
    cursor       \* where the mouse cursor of the host is, and the thread
                 \* that put it there

envVars == <<browser, dialog, dialogLog>>

lookVars == <<body, capture>>

cmdVars == <<pc, req, attempt, driver, opc, inner, result, swallowed,
             propagated, connects, events, lookVars, tally>>

supVars == <<spc, call, resp, fresh, sessionData>>

pageVars == <<logs, hooks, pushed, lost, trail, carried>>

raceVars == <<workers, cursor>>

\* What no step of a guarded command touches.
restVars == <<supVars, pageVars, stable, window, raceVars>>

vars == <<browser, dialog, dialogLog, pc, req, attempt, driver, opc, inner,
          result, swallowed, propagated, connects, events, body, capture,
          tally, spc, call, resp, fresh, sessionData, logs, hooks, pushed, lost,
          trail, carried, stable, window, workers, cursor>>

(***************************************************************************)
(* Requests.  Every request record has the same fields; a field a command  *)
(* does not read is None.                                                  *)
(***************************************************************************)
XPaths == {None, Some("//button")}

\* The largest coordinate a request carries.
MaxCoord == 3

XCoords == {None, Some(0), Some(MaxCoord)}

YCoords == {None, Some(2)}

\* URLs are sequences of characters.  The characters \w matches: the
\* letters of "https", and "w" for any other one.
WordChars == {"h", "t", "p", "s", "w"}

Urls == {None, Some(<<>>), Some(<<"w", ".", "w">>),
         Some(<<"w", ":", "/", "/", "w">>)}

\* The characters the URLs given to the normalisation are made of: a word
\* character, one that \w does not match, and the two of "://".
UrlChars == {"w", "-", ":", "/"}

\* The longest URL given to the normalisation.
MaxUrlLen == 5

\* The non-empty URLs of at most MaxUrlLen characters.
UrlInputs == UNION {[1..k -> UrlChars] : k \in 1..MaxUrlLen}

\* The fields read by type_input, scroll_page and drag_element only, with
\* the values data.get gives them when they are absent.
Keys ==
    {None, Some(<<"ENTER">>), Some(<<"F5">>), Some(<<"CONTROL", "A">>),
     Some(<<"CONTROL", "F5">>)}

Texts == {None, Some(<<"h", "i">>)}

ScrollTypes == {"pixels", "element", "sideways"}

ClickRequests ==
    [cmd : {"click_element", "double_click_element"}, port : Ports,
     xpath : XPaths, x : XCoords, y : YCoords, url : {None},
     text : {None}, special_key : {None}, clear_first : {TRUE},
     scroll_type : {"pixels"}, value : {None}, source_xpath : {None},
     target_xpath : {None}]

InspectRequests ==
    [cmd : {"inspect_element"}, port : Ports, xpath : {None},
     x : {None, Some(MaxCoord)}, y : YCoords, url : {None},
     text : {None}, special_key : {None}, clear_first : {TRUE},
     scroll_type : {"pixels"}, value : {None}, source_xpath : {None},
     target_xpath : {None}]

NavigateRequests ==
    [cmd : {"go_to_url"}, port : Ports, xpath : {None}, x : {None},
     y : {None}, url : Urls,
     text : {None}, special_key : {None}, clear_first : {TRUE},
     scroll_type : {"pixels"}, value : {None}, source_xpath : {None},
     target_xpath : {None}]

LookRequests ==
    [cmd : {"look"}, port : Ports, xpath : {None}, x : {None}, y : {None},
     url : {None},
     text : {None}, special_key : {None}, clear_first : {TRUE},
     scroll_type : {"pixels"}, value : {None}, source_xpath : {None},
     target_xpath : {None}]

\* special_key is the list special_key.upper().split() gives.
TypeRequests ==
    [cmd : {"type_input"}, port : {DefaultPort}, xpath : {None}, x : {None},
     y : {None}, url : {None},
     text : Texts, special_key : Keys, clear_first : BOOLEAN,
     scroll_type : {"pixels"}, value : {None}, source_xpath : {None},
     target_xpath : {None}]

ScrollRequests ==
    [cmd : {"scroll_page"}, port : {DefaultPort}, xpath : {None},
     x : {None}, y : {None}, url : {None},
     text : {None}, special_key : {None}, clear_first : {TRUE},
     scroll_type : ScrollTypes, value : XPaths, source_xpath : {None},
     target_xpath : {None}]

DragRequests ==
    [cmd : {"drag_element"}, port : {DefaultPort}, xpath : {None},
     x : {None}, y : {None}, url : {None},
     text : {None}, special_key : {None}, clear_first : {TRUE},
     scroll_type : {"pixels"}, value : {None}, source_xpath : XPaths,
     target_xpath : XPaths]

Requests ==
    ClickRequests \cup InspectRequests \cup NavigateRequests
    \cup LookRequests \cup TypeRequests \cup ScrollRequests
    \cup DragRequests

NoRequest ==
    [cmd |-> "none", port |-> DefaultPort, xpath |-> None, x |-> None,
     y |-> None, url |-> None, text |-> None, special_key |-> None,
     clear_first |-> TRUE, scroll_type |-> "pixels", value |-> None,
     source_xpath |-> None, target_xpath |-> None]

(***************************************************************************)
(* Texts and the object look returns.  A text is modelled by its length    *)
(* and by whether it ends with the truncation marker.                      *)
(***************************************************************************)
\* generate_response: max_dom_size = 1000000
max_dom_size == 1000000

\* len("... (truncated)")
MarkerLen == 15

Text(n) == [len |-> n, marker |-> FALSE]

\* How far past max_dom_size the longest page text reaches.
MaxOver == 16

\* The lengths document.documentElement.outerHTML can have.
DomLens == {1, max_dom_size, max_dom_size + 1, max_dom_size + MaxOver}

\* The keys of the object look or go_to_url returns: error (present),
\* screenshot and error_screenshot (a non-empty image), dom_content (a text,
\* or None when the key is absent), partial (partial_url and partial_title
\* are present), text (the echo of type_input), actual_coordinates (of a
\* click by coordinates).
NoBody ==
    [error |-> FALSE, screenshot |-> FALSE, error_screenshot |-> FALSE,
     dom_content |-> None, partial |-> FALSE, text |-> None,
     actual_coordinates |-> None]

\* The screenshot calls one run of look made, whether the page answered the
\* driver during it, and the text of the page then.
NoCapture == [shots |-> <<>>, readable |-> FALSE, page |-> None]

NoTally == [runs |-> 0, last |-> "none", probed |-> FALSE, open |-> 0]

(***************************************************************************)
(* The environment: what the browser on a port can answer.                 *)
(***************************************************************************)
BrowserStates == {"down", "up", "mute"}

\* Outcomes of one WebDriver call on port p: it can succeed only when the
\* browser answers, and it can always fail (stale session, timeout).
Outcomes(p) == IF browser[p] = "up" THEN {TRUE, FALSE} ELSE {FALSE}

\* A page-level WebDriver command (find element, execute script, window
\* rect) is answered only while no native dialog blocks the page.
Answers(p) == browser[p] = "up" /\ dialog[p] = "none"

\* The browser on p starts, dies or stops answering.
BrowserChange(p, s) ==
    /\ browser[p] # s
    /\ browser' = [browser EXCEPT ![p] = s]
    /\ dialog' = [dialog EXCEPT ![p] = IF s = "up" THEN @ ELSE "none"]
    /\ UNCHANGED <<dialogLog, cmdVars, restVars>>

\* A page script opens a native dialog between two commands.
PageDialog(p) ==
    /\ pc = "Idle"
    /\ browser[p] = "up"
    /\ dialog[p] = "none"
    /\ dialog' = [dialog EXCEPT ![p] = "open"]
    /\ UNCHANGED <<browser, dialogLog, cmdVars, restVars>>

(***************************************************************************)
(* handle_alerts: the wrapper of every guarded command.                    *)
(***************************************************************************)
\* The keyword arguments Flask passes to a view function are the variables
\* of its URL rule; no route of this service has any.
kwargs == [k \in {} |-> None]

\* dict.get(key, default)
DictGet(d, key, default) == IF key \in DOMAIN d THEN d[key] ELSE default

\* debugging_port = kwargs.get('debugging_port', 9222)
GuardPort == DictGet(kwargs, "debugging_port", DefaultPort)

\* alert.dismiss() on the dialog dismiss_alerts found.
CloseDialog(p) ==
    /\ dialog' = [dialog EXCEPT ![p] = "none"]
    /\ dialogLog' = dialogLog \cup {[port |-> p, how |-> "dismiss"]}

\* dismiss_alerts(driver, timeout) when the driver answers: a dialog that is
\* present is dismissed, otherwise the wait times out and nothing changes.
dismiss_alerts(p) ==
    IF dialog[p] = "open"
    THEN CloseDialog(p)
    ELSE UNCHANGED <<dialog, dialogLog>>

Exc(step) == [attempt |-> attempt + 1, step |-> step]

\* The handler with the comparison against the wrong index: it re-raises on
\* the second attempt.
GuardRaise_early(step) ==
    IF attempt = max_attempts - 2
    THEN /\ pc' = "Failed"
         /\ propagated' = Some(Exc(step))
         /\ UNCHANGED <<attempt, swallowed>>
    ELSE /\ pc' = "Connecting"
         /\ attempt' = attempt + 1
         /\ swallowed' = Append(swallowed, Exc(step))
         /\ UNCHANGED propagated

\* except Exception as e: re-raise on the last attempt, otherwise sleep and
\* run the next iteration of the loop.
GuardRaise(step) ==
    IF attempt = max_attempts - 1
    THEN /\ pc' = "Failed"
         /\ propagated' = Some(Exc(step))
         /\ UNCHANGED <<attempt, swallowed>>
    ELSE /\ pc' = "Connecting"
         /\ attempt' = attempt + 1
         /\ swallowed' = Append(swallowed, Exc(step))
         /\ UNCHANGED propagated

\* A caller issues a command.
Request(r) ==
    /\ pc = "Idle"
    /\ pc' = "Connecting"
    /\ req' = r
    /\ UNCHANGED <<attempt, driver, opc, inner, result, swallowed,
                   propagated, connects, events, envVars, restVars>>
    /\ UNCHANGED <<lookVars, tally>>

\* driver = connect_to_chrome(debugging_port)
Connect ==
    /\ pc = "Connecting"
    /\ connects' = connects + 1
    /\ \E ok \in Outcomes(GuardPort) :
          IF ok
          THEN /\ driver' = Some(GuardPort)
               /\ tally' = [tally EXCEPT !.probed = FALSE]
               /\ pc' = "PreAlertCheck"
               /\ UNCHANGED <<attempt, swallowed, propagated>>
          ELSE /\ GuardRaise("connect")
               /\ UNCHANGED <<driver, tally>>
    /\ UNCHANGED <<req, opc, inner, result, events, envVars, restVars>>
    /\ UNCHANGED lookVars

\* dismiss_alerts(driver, timeout=2) before the call
PreAlertCheck ==
    /\ pc = "PreAlertCheck"
    /\ \E ok \in Outcomes(driver[1]) :
          IF ok
          THEN /\ dismiss_alerts(driver[1])
               /\ pc' = "Executing"
               /\ opc' = "start"
               /\ inner' = 0
               /\ UNCHANGED <<attempt, swallowed, propagated>>
          ELSE /\ GuardRaise("pre")
               /\ UNCHANGED <<dialog, dialogLog, opc, inner>>
    /\ UNCHANGED <<browser, req, driver, result, connects, events, restVars>>
    /\ UNCHANGED <<lookVars, tally>>

\* The second dismiss_alerts with the result of func kept across the
\* exception.
PostAlertCheck_keeps_result ==
    /\ pc = "PostAlertCheck"
    /\ \E ok \in Outcomes(driver[1]) :
          IF ok
          THEN /\ dismiss_alerts(driver[1])
               /\ pc' = "Done"
               /\ UNCHANGED <<attempt, swallowed, propagated, result,
                              lookVars>>
          ELSE /\ GuardRaise("post")
               /\ UNCHANGED <<result, lookVars, dialog, dialogLog>>
    /\ UNCHANGED <<browser, req, driver, opc, inner, connects, events,
                   tally, restVars>>

\* dismiss_alerts(driver, timeout=2) after the call; return result
PostAlertCheck ==
    /\ pc = "PostAlertCheck"
    /\ \E ok \in Outcomes(driver[1]) :
          IF ok
          THEN /\ dismiss_alerts(driver[1])
               /\ pc' = "Done"
               /\ UNCHANGED <<attempt, swallowed, propagated, result,
                              lookVars>>
          ELSE /\ GuardRaise("post")
               /\ result' = "none"
               /\ body' = NoBody
               /\ capture' = NoCapture
               /\ UNCHANGED <<dialog, dialogLog>>
    /\ UNCHANGED <<browser, req, driver, opc, inner, connects, events,
                   tally, restVars>>

\* The response (or Flask's error page) has gone out; the service is idle.
Finish ==
    /\ pc \in {"Done", "Failed"}
    /\ pc' = "Idle"
    /\ req' = NoRequest
    /\ attempt' = 0
    /\ driver' = None
    /\ opc' = "start"
    /\ inner' = 0
    /\ result' = "none"
    /\ swallowed' = <<>>
    /\ propagated' = None
    /\ connects' = 0
    /\ events' = <<>>
    /\ dialogLog' = {}
    /\ body' = NoBody
    /\ capture' = NoCapture
    /\ tally' = NoTally
    /\ UNCHANGED <<browser, dialog, restVars>>

\* The wrapper returning the result at once, without the second
\* dismiss_alerts.
Return_unchecked(status) ==
    /\ pc' = "Done"
    /\ result' = status
    /\ UNCHANGED <<attempt, swallowed, propagated>>

(***************************************************************************)
(* The wrapped functions.  Each runs at pc = "Executing" with the driver   *)
(* the wrapper passes in.                                                  *)
(***************************************************************************)
\* return jsonify(...), status: back in the wrapper, before its second
\* dismiss_alerts.
Return(status) ==
    /\ pc' = "PostAlertCheck"
    /\ result' = status
    /\ UNCHANGED <<attempt, swallowed, propagated>>

\* if not xpath and (x_coord is None or y_coord is None)
MissingTarget(r) == ~Truthy(r.xpath) /\ (r.x = None \/ r.y = None)

\* The branch the click functions take: `if xpath:` first, else coordinates.
Addressing(r) == IF Truthy(r.xpath) THEN "xpath" ELSE "coords"

\* The largest offset of a browser window from the origin of the screen.
MaxOrigin == 5

\* driver.get_window_rect(): where the window of the browser is on the
\* screen.
Origins == {[x |-> 0, y |-> 0], [x |-> MaxOrigin, y |-> 1]}

\* The window in the corner of the screen.
Corner == [x |-> 0, y |-> 0]

\* The coordinates of the request used as screen coordinates.
ScreenPoint_viewport(w, r) == [x |-> r.x[1], y |-> r.y[1]]

\* abs_x = window_rect['x'] + x_coord; abs_y = window_rect['y'] + y_coord
ScreenPoint(w, r) == [x |-> w.x + r.x[1], y |-> w.y + r.y[1]]

\* Where a click lands: for a click by coordinates the point computed from
\* the window at w; for a click on an element the place of the element,
\* which has no number here.
ClickPoint(w, r) ==
    IF Addressing(r) = "coords" THEN Some(ScreenPoint(w, r)) ELSE None

\* pyautogui.moveTo + click at the window of the browser on port p: the
\* OS-level cursor move and click, with no other way of clicking tried
\* before it.
Click(kind, p, r) ==
    [kind |-> kind, port |-> p, by |-> Addressing(r), x |-> r.x, y |-> r.y,
     window |-> window[p], at |-> ClickPoint(window[p], r),
     strategy |-> "os", after |-> <<>>]

\* The tally after one more run of the body of the action: `last` is
\* "timeout" when a WebDriverWait of the run ran out, "invalid" when the
\* request was rejected, "ok" or "error" otherwise ("none" while the run
\* is under way).
Ran(t, out, probed) ==
    [runs |-> t.runs + 1, last |-> out, probed |-> probed, open |-> t.open]

\* establish_stable_connection(port): the numbers of webdriver.Chrome calls
\* it can make and whether it returns a driver.  It returns at the first
\* attempt that connects and answers the probe, and raises after 3 failures.
StableOutcomes(p) ==
    {[n |-> stable_max_retries, ok |-> FALSE]}
    \cup (IF browser[p] = "up"
          THEN {[n |-> k, ok |-> TRUE] : k \in 1..stable_max_retries}
          ELSE {})

\* What the element waits and driver calls of one click can end in.
ClickOutcomes(p, r) ==
    (IF Answers(p) THEN {"ok"} ELSE {})
    \cup {"error"}
    \cup (IF Addressing(r) = "xpath" THEN {"timeout"} ELSE {})

\* click_element: one iteration of `for attempt in range(max_retries)`.
click_element ==
    /\ pc = "Executing"
    /\ req.cmd = "click_element"
    /\ IF MissingTarget(req)
       THEN /\ Return("400")
            /\ tally' = Ran(tally, "invalid", tally.probed)
            /\ UNCHANGED <<inner, connects, events, dialog, body>>
       ELSE LET p == IF inner > 0 THEN req.port ELSE driver[1] IN
            \E sc \in (IF inner > 0 THEN StableOutcomes(p)
                       ELSE {[n |-> 0, ok |-> TRUE]}),
               out \in ClickOutcomes(p, req), opens \in BOOLEAN :
               /\ connects' = connects + sc.n
               /\ tally' = IF sc.ok
                           THEN Ran(tally, out, inner > 0 \/ tally.probed)
                           ELSE Ran(tally, "error", tally.probed)
               /\ IF sc.ok /\ out = "ok"
                  THEN /\ events' = Append(events,
                              Click("click", p, req))
                       /\ body' = [NoBody EXCEPT
                              !.actual_coordinates = ClickPoint(window[p], req)]
                       /\ dialog' = [dialog EXCEPT
                              ![p] = IF opens THEN "open" ELSE @]
                       /\ Return("200")
                       /\ UNCHANGED inner
                  ELSE /\ ~opens
                       /\ UNCHANGED <<events, dialog, body>>
                       /\ IF inner = max_retries - 1
                          THEN /\ GuardRaise("op")
                               /\ UNCHANGED <<inner, result>>
                          ELSE /\ inner' = inner + 1
                               /\ UNCHANGED <<pc, attempt, swallowed,
                                              propagated, result>>
    /\ UNCHANGED <<browser, dialogLog, req, driver, opc, restVars>>
    /\ UNCHANGED capture

\* The status double_click_element returns: 404 from `except
\* TimeoutException`, 500 from the two handlers after it.
ClickStatus(out) ==
    CASE out = "ok" -> "200"
      [] out = "timeout" -> "404"
      [] OTHER -> "500"

\* double_click_element: no loop of its own; every exception is turned into
\* a result.
double_click_element ==
    /\ pc = "Executing"
    /\ req.cmd = "double_click_element"
    /\ IF MissingTarget(req)
       THEN /\ Return("400")
            /\ tally' = Ran(tally, "invalid", tally.probed)
            /\ UNCHANGED <<events, dialog, body>>
       ELSE \E out \in ClickOutcomes(driver[1], req), opens \in BOOLEAN :
               /\ tally' = Ran(tally, out, tally.probed)
               /\ Return(ClickStatus(out))
               /\ IF out = "ok"
                  THEN /\ events' = Append(events,
                              Click("doubleClick", driver[1], req))
                       /\ body' = [NoBody EXCEPT
                              !.actual_coordinates = ClickPoint(window[driver[1]], req)]
                       /\ dialog' = [dialog EXCEPT
                              ![driver[1]] = IF opens THEN "open" ELSE @]
                  ELSE /\ ~opens
                       /\ UNCHANGED <<events, dialog, body>>
    /\ UNCHANGED <<browser, dialogLog, req, driver, opc, inner, connects,
                   restVars>>
    /\ UNCHANGED capture

\* inspect_element: one execute_script, no try/except.  The script text is
\* built from x and y: a None coordinate is not JavaScript and the call
\* raises.
inspect_element ==
    /\ pc = "Executing"
    /\ req.cmd = "inspect_element"
    /\ \E ok \in Outcomes(driver[1]) :
          IF ok /\ Answers(driver[1]) /\ req.x # None /\ req.y # None
          THEN /\ Return("200")
               /\ tally' = Ran(tally, "ok", tally.probed)
          ELSE /\ GuardRaise("op")
               /\ tally' = Ran(tally, "error", tally.probed)
               /\ UNCHANGED result
    /\ UNCHANGED <<envVars, req, driver, opc, inner, connects, events,
                   restVars>>
    /\ UNCHANGED lookVars

\* special_keys_map
special_keys_map ==
    ("DELETE" :> "delete") @@ ("BACKSPACE" :> "backspace")
    @@ ("TAB" :> "tab") @@ ("RETURN" :> "return") @@ ("ENTER" :> "enter")
    @@ ("PAGE_UP" :> "pageup") @@ ("PAGE_DOWN" :> "pagedown")
    @@ ("HOME" :> "home") @@ ("END" :> "end") @@ ("ESCAPE" :> "esc")
    @@ ("UP" :> "up") @@ ("DOWN" :> "down") @@ ("LEFT" :> "left")
    @@ ("RIGHT" :> "right") @@ ("CONTROL" :> "ctrl")
    @@ ("COMMAND" :> "command") @@ ("ALT" :> "alt") @@ ("SHIFT" :> "shift")

\* str.lower() on the key names of the requests.
Lower(k) == IF k = "A" THEN "a" ELSE IF k = "F5" THEN "f5" ELSE k

\* Python truthiness of the optional special_key: None and "" (which splits
\* into no names) are falsy.
TruthyKey(o) == o # None /\ o[1] # <<>>

\* Python truthiness of the optional text, a text being the sequence of its
\* characters: None and "" are falsy.
TruthyText(o) == o # None /\ o[1] # <<>>

\* A pyautogui keyboard call.
KeyEvent(kind, keys) ==
    [kind |-> kind, port |-> DefaultPort, by |-> "keyboard", keys |-> keys]

\* if clear_first: hotkey('ctrl', 'a') and press('delete') (on a host that
\* is not macOS).
ClearKeys(r) ==
    IF r.clear_first
    THEN <<KeyEvent("hotkey", <<"ctrl", "a">>), KeyEvent("press", <<"delete">>)>>
    ELSE <<>>

\* A single special key that special_keys_map does not know.
Unsupported(r) ==
    /\ TruthyKey(r.special_key)
    /\ Len(r.special_key[1]) = 1
    /\ r.special_key[1][1] \notin DOMAIN special_keys_map

\* `if special_key:` a hotkey for several names, a press for one name of
\* the map; `else:` pyautogui.write(input_text).
SentKeys(r) ==
    IF TruthyKey(r.special_key)
    THEN IF Len(r.special_key[1]) > 1
         THEN <<KeyEvent("hotkey",
                   [i \in 1..Len(r.special_key[1]) |->
                       DictGet(special_keys_map, r.special_key[1][i],
                               Lower(r.special_key[1][i]))])>>
         ELSE <<KeyEvent("press", <<special_keys_map[r.special_key[1][1]]>>)>>
    ELSE <<KeyEvent("write", r.text[1])>>

\* "text": input_text if input_text else special_key
Echo(r) == IF TruthyText(r.text) THEN r.text[1] ELSE r.special_key[1]

\* type_input.  k is the number of keyboard calls that return before one
\* raises; the handler turns the exception into a 500.  An unsupported key
\* is answered with 400 after the field was cleared.
type_input ==
    /\ pc = "Executing"
    /\ req.cmd = "type_input"
    /\ IF ~TruthyText(req.text) /\ ~TruthyKey(req.special_key)
       THEN /\ Return("400")
            /\ body' = [NoBody EXCEPT !.error = TRUE]
            /\ tally' = Ran(tally, "invalid", tally.probed)
            /\ UNCHANGED events
       ELSE LET plan == IF Unsupported(req) THEN ClearKeys(req)
                        ELSE ClearKeys(req) \o SentKeys(req)
            IN  \E k \in 0..Len(plan) :
                   /\ events' = events \o SubSeq(plan, 1, k)
                   /\ IF k < Len(plan)
                      THEN /\ Return("500")
                           /\ body' = [NoBody EXCEPT !.error = TRUE]
                           /\ tally' = Ran(tally, "error", tally.probed)
                      ELSE IF Unsupported(req)
                      THEN /\ Return("400")
                           /\ body' = [NoBody EXCEPT !.error = TRUE]
                           /\ tally' = Ran(tally, "invalid", tally.probed)
                      ELSE /\ Return("200")
                           /\ body' = [NoBody EXCEPT !.text = Some(Echo(req))]
                           /\ tally' = Ran(tally, "ok", tally.probed)
    /\ UNCHANGED <<envVars, req, driver, opc, inner, connects, capture,
                   restVars>>

\* What the driver calls of scroll_page and drag_element can end in: the
\* wait for an element timing out, the element not being interactable, any
\* other exception, success.
DomOutcomes(p, waits) ==
    {"error"}
    \cup (IF Answers(p) THEN {"ok"} ELSE {})
    \cup (IF waits THEN {"timeout", "not_interactable"} ELSE {})

\* The status scroll_page returns.  Its 404 handler names
\* NoSuchElementException, which WebDriverWait never lets through: a wait
\* that runs out raises TimeoutException, a WebDriverException, and is
\* answered by the handler for that class.
ScrollStatus(out) == IF out = "ok" THEN "200" ELSE "500"

\* scroll_page
scroll_page ==
    /\ pc = "Executing"
    /\ req.cmd = "scroll_page"
    /\ IF ~Truthy(req.value) \/ req.scroll_type \notin {"pixels", "element"}
       THEN /\ Return("400")
            /\ tally' = Ran(tally, "invalid", tally.probed)
            /\ UNCHANGED events
       ELSE \E out \in DomOutcomes(driver[1], req.scroll_type = "element") :
               /\ tally' = Ran(tally, out, tally.probed)
               /\ events' = IF out = "ok"
                            THEN Append(events,
                                    [kind |-> "scroll", port |-> driver[1],
                                     by |-> req.scroll_type])
                            ELSE events
               /\ Return(ScrollStatus(out))
    /\ UNCHANGED <<envVars, req, driver, opc, inner, connects, lookVars,
                   restVars>>

\* The status drag_element returns: 404 from `except TimeoutException`, 400
\* from `except ElementNotInteractableException`, 500 otherwise.
DragStatus(out) ==
    CASE out = "ok" -> "200"
      [] out = "timeout" -> "404"
      [] out = "not_interactable" -> "400"
      [] OTHER -> "500"

\* drag_element: ActionChains(driver).drag_and_drop(source, target).
drag_element ==
    /\ pc = "Executing"
    /\ req.cmd = "drag_element"
    /\ IF ~Truthy(req.source_xpath) \/ ~Truthy(req.target_xpath)
       THEN /\ Return("400")
            /\ tally' = Ran(tally, "invalid", tally.probed)
            /\ UNCHANGED events
       ELSE \E out \in DomOutcomes(driver[1], TRUE) :
               /\ tally' = Ran(tally, out, tally.probed)
               /\ events' = IF out = "ok"
                            THEN Append(events,
                                    [kind |-> "drag", port |-> driver[1],
                                     by |-> "xpath"])
                            ELSE events
               /\ Return(DragStatus(out))
    /\ UNCHANGED <<envVars, req, driver, opc, inner, connects, lookVars,
                   restVars>>

\* generate_response(screenshot, dom_content): a text longer than
\* max_dom_size is cut to max_dom_size characters and the marker appended.
generate_response(screenshot, dom_content) ==
    [screenshot |-> screenshot,
     dom_content |->
        IF dom_content.len > max_dom_size
        THEN [len |-> max_dom_size + MarkerLen, marker |-> TRUE]
        ELSE dom_content]

\* One pyautogui.screenshot() call: a capture of the whole screen by the
\* operating system.
Shot(ok) == [strategy |-> "os", ok |-> ok]

\* WebDriverWait(driver, 15) for the body element: found, TimeoutException,
\* or any other exception.
LookWaits(p) == {"error"} \cup (IF Answers(p) THEN {"ok", "timeout"} ELSE {})

\* One read through the driver (outerHTML, window rect, current_url, title).
DriverReads(p) == IF Answers(p) THEN {TRUE, FALSE} ELSE {FALSE}

\* look.  `import io` and `import base64` are statements of the function
\* body that run after the first screenshot was taken and cropped: until
\* then the two names are unbound locals, and the handler's own screenshot
\* cannot be encoded (its bare except leaves error_screenshot None).  The
\* handler reads driver.current_url outside any try: when that raises, the
\* exception reaches handle_alerts.
look ==
    /\ pc = "Executing"
    /\ req.cmd = "look"
    /\ LET p == driver[1] IN
       \E wait \in LookWaits(p), shot1 \in BOOLEAN, shot2 \in BOOLEAN,
          len \in DomLens, dom \in DriverReads(p), url1 \in DriverReads(p),
          url2 \in DriverReads(p) :
          LET tried == wait # "error"
              bound == tried /\ shot1
              done  == bound /\ url1 /\ (wait = "ok" => dom)
              first == IF tried THEN <<Shot(shot1)>> ELSE <<>>
              seen  == [shots |-> IF done THEN first
                                  ELSE first \o <<Shot(shot2)>>,
                        readable |-> Answers(p),
                        page |-> IF Answers(p) THEN Some(Text(len))
                                 ELSE None]
          IN  /\ capture' = seen
              /\ tally' = Ran(tally,
                              IF ~done THEN "error"
                              ELSE IF wait = "timeout" THEN "timeout"
                              ELSE "ok", tally.probed)
              /\ IF done
                 THEN /\ body' = [error |-> wait = "timeout",
                                  screenshot |-> TRUE,
                                  error_screenshot |-> FALSE,
                                  dom_content |-> IF wait = "ok"
                                                  THEN Some(Text(len))
                                                  ELSE None,
                                  partial |-> FALSE, text |-> None,
                                  actual_coordinates |-> None]
                      /\ Return("200")
                 ELSE IF url2
                 THEN /\ body' = [error |-> TRUE, screenshot |-> FALSE,
                                  error_screenshot |-> bound /\ shot2,
                                  dom_content |-> None, partial |-> FALSE,
                                  text |-> None,
                                  actual_coordinates |-> None]
                      /\ Return("200")
                 ELSE /\ body' = NoBody
                      /\ GuardRaise("op")
                      /\ UNCHANGED result
    /\ UNCHANGED <<envVars, req, driver, opc, inner, connects, events,
                   restVars>>

\* Python truthiness of an optional URL: None and the empty string are falsy.
TruthyUrl(o) == o # None /\ o[1] # <<>>

\* re.match(r'^\w+://', url)
HasScheme(u) ==
    \E n \in 1..Len(u) :
       /\ n + 3 <= Len(u)
       /\ \A i \in 1..n : u[i] \in WordChars
       /\ u[n + 1] = ":" /\ u[n + 2] = "/" /\ u[n + 3] = "/"

\* 'https://'
HttpsPrefix == <<"h", "t", "t", "p", "s", ":", "/", "/">>

\* The prefix with one slash missing.
NormalizeUrl_one_slash(u) ==
    IF HasScheme(u) THEN u ELSE <<"h", "t", "t", "p", "s", ":", "/">> \o u

\* if not re.match(r'^\w+://', url): url = f'https://{url}'
NormalizeUrl(u) ==
    IF HasScheme(u) THEN u ELSE HttpsPrefix \o u

\* The normalisation of go_to_url applied to the URL of the request, and
\* then to its own result.
normalize_url ==
    /\ req.cmd = "go_to_url"
    /\ pc = "Idle"
    /\ Len(events) < 2
    /\ events' = Append(events,
          [kind |-> "normalize", port |-> req.port,
           url |-> NormalizeUrl(IF events = <<>> THEN req.url[1]
                                ELSE events[Len(events)].url)])
    /\ UNCHANGED <<envVars, pc, req, attempt, driver, opc, inner, result,
                   swallowed, propagated, connects, lookVars, tally,
                   restVars>>

\* go_to_url up to requests.get(f'http://localhost:{debugging_port}/json'),
\* which is sent without a timeout.
go_to_url_begin ==
    /\ pc = "Executing"
    /\ req.cmd = "go_to_url"
    /\ opc = "start"
    /\ tally' = Ran(tally, IF TruthyUrl(req.url) THEN "none" ELSE "invalid",
                    tally.probed)
    /\ IF ~TruthyUrl(req.url)
       THEN /\ Return("400")
            /\ body' = [NoBody EXCEPT !.error = TRUE]
            /\ UNCHANGED opc
       ELSE /\ opc' = "tabs"
            /\ UNCHANGED <<pc, result, attempt, swallowed, propagated, body>>
    /\ UNCHANGED <<envVars, req, driver, inner, connects, events, restVars>>
    /\ UNCHANGED capture

\* What go_to_url can end in once the tab list has been answered: a status
\* other than 200, no tab of type page, webdriver.Chrome raising, any other
\* exception, the ready-state wait timing out (and then
\* active_driver.current_url or .title, read inside the TimeoutException
\* handler, raising: timeout_error), success.
NavigateOutcomes(p) ==
    {"non200", "notab", "noconnect", "error"}
    \cup (IF Answers(p) THEN {"timeout", "timeout_error", "ok"} ELSE {})

\* The outcomes after which active_driver, opened by webdriver.Chrome, is
\* still open when go_to_url returns: active_driver.quit() is called on the
\* path to the 200 only, not by the TimeoutException handler and not by
\* `except Exception`.
Unreleased(out) == {out} \cap {"error", "timeout", "timeout_error"}

\* Every failure answered with the same status.
NavigateStatus_plain(out) == IF out = "ok" THEN "200" ELSE "500"

\* The status go_to_url returns: 504 from the TimeoutException handler, 500
\* from `except Exception`, which also catches what that handler raises.
NavigateStatus(out) ==
    CASE out = "ok" -> "200"
      [] out = "timeout" -> "504"
      [] OTHER -> "500"

\* go_to_url from the answer of requests.get to its return.  The call
\* returns only when the browser answers or refuses the connection.
go_to_url_tabs ==
    /\ pc = "Executing"
    /\ req.cmd = "go_to_url"
    /\ opc = "tabs"
    /\ browser[req.port] # "mute"
    /\ opc' = "start"
    /\ IF browser[req.port] = "down"
       THEN /\ Return("500")
            /\ body' = [NoBody EXCEPT !.error = TRUE]
            /\ tally' = [tally EXCEPT !.last = "error"]
            /\ UNCHANGED <<connects, events, dialog>>
       ELSE \E out \in NavigateOutcomes(req.port), opens \in BOOLEAN :
               /\ tally' = [tally EXCEPT
                      !.last = CASE out = "ok" -> "ok"
                                 [] out \in {"timeout", "timeout_error"}
                                      -> "timeout"
                                 [] OTHER -> "error",
                      !.open = @ + Cardinality(Unreleased(out))]
               /\ connects' =
                     IF out \in {"non200", "notab"} THEN connects
                     ELSE connects + 1
               /\ IF out \in {"timeout", "timeout_error", "ok"}
                  THEN /\ events' = Append(events,
                              [kind |-> "navigate", port |-> req.port,
                               url |-> NormalizeUrl(req.url[1]),
                               ready |-> out = "ok"])
                       /\ dialog' = [dialog EXCEPT
                              ![req.port] = IF opens THEN "open" ELSE @]
                  ELSE /\ ~opens
                       /\ UNCHANGED <<events, dialog>>
               /\ body' = [NoBody EXCEPT !.error = out # "ok",
                                         !.partial = out = "timeout"]
               /\ Return(NavigateStatus(out))
    /\ UNCHANGED <<browser, dialogLog, req, driver, inner, restVars>>
    /\ UNCHANGED capture

(***************************************************************************)
(* establish_stable_connection, one call of the function at a time.  The   *)
(* trace lists its calls of webdriver.Chrome, execute_script and           *)
(* time.sleep in the order it made them.                                   *)
(***************************************************************************)
\* The largest max_retries a caller passes.
MaxStableRetries == 3

NoStable ==
    [pc |-> "idle", port |-> DefaultPort, max_retries |-> 0, attempt |-> 0,
     trace |-> <<>>, driver |-> None, raised |-> None]

StableCall(what, ok) == [call |-> what, attempt |-> stable.attempt, ok |-> ok]

\* The handler sleeping and retrying on the last attempt as well.
StableCaught_one_more(what) ==
    LET t == Append(stable.trace, StableCall(what, FALSE))
    IN  IF stable.attempt = stable.max_retries
        THEN stable' = [stable EXCEPT !.pc = "raised", !.trace = t,
                           !.raised = Some(StableCall(what, FALSE))]
        ELSE stable' = [stable EXCEPT !.pc = "sleep", !.trace = t]

\* except Exception as e: re-raise on the last attempt, otherwise go on to
\* time.sleep(1).
StableCaught(what) ==
    LET t == Append(stable.trace, StableCall(what, FALSE))
    IN  IF stable.attempt = stable.max_retries - 1
        THEN stable' = [stable EXCEPT !.pc = "raised", !.trace = t,
                           !.raised = Some(StableCall(what, FALSE))]
        ELSE stable' = [stable EXCEPT !.pc = "sleep", !.trace = t]

\* establish_stable_connection(debugging_port, max_retries) is called.  A
\* range(max_retries) that is empty leads to the raise after the loop.
establish_stable_connection(p, n) ==
    /\ stable.pc = "idle"
    /\ stable' = IF n = 0
                 THEN [NoStable EXCEPT !.pc = "raised", !.port = p,
                          !.raised = Some([call |-> "loop", attempt |-> 0,
                                           ok |-> FALSE])]
                 ELSE [NoStable EXCEPT !.pc = "connect", !.port = p,
                          !.max_retries = n]
    /\ UNCHANGED <<envVars, cmdVars, supVars, pageVars, window, raceVars>>

\* driver = webdriver.Chrome(options=chrome_options)
stable_connect ==
    /\ stable.pc = "connect"
    /\ \E ok \in Outcomes(stable.port) :
          IF ok
          THEN stable' = [stable EXCEPT !.pc = "probe",
                  !.trace = Append(@, StableCall("connect", TRUE))]
          ELSE StableCaught("connect")
    /\ UNCHANGED <<envVars, cmdVars, supVars, pageVars, window, raceVars>>

\* driver.execute_script("return document.readyState"); return driver
stable_probe ==
    /\ stable.pc = "probe"
    /\ \E ok \in {Answers(stable.port), FALSE} :
          IF ok
          THEN stable' = [stable EXCEPT !.pc = "returned",
                  !.trace = Append(@, StableCall("probe", TRUE)),
                  !.driver = Some(stable.port)]
          ELSE StableCaught("probe")
    /\ UNCHANGED <<envVars, cmdVars, supVars, pageVars, window, raceVars>>

\* time.sleep(1), then the next iteration of the loop.
stable_sleep ==
    /\ stable.pc = "sleep"
    /\ stable' = [stable EXCEPT !.pc = "connect",
                     !.trace = Append(@, StableCall("sleep", TRUE)),
                     !.attempt = @ + 1]
    /\ UNCHANGED <<envVars, cmdVars, supVars, pageVars, window, raceVars>>

\* The caller has taken the driver or the exception.
stable_done ==
    /\ stable.pc \in {"returned", "raised"}
    /\ stable' = NoStable
    /\ UNCHANGED <<envVars, cmdVars, supVars, pageVars, window, raceVars>>

(***************************************************************************)
(* start_browser and the termination routines.  In this machine browser[p] *)
(* is the Chrome process bound to port p: "down" no process, "up" a        *)
(* process that answers on p, "mute" a process that does not answer.       *)
(***************************************************************************)
NoCall ==
    [port |-> DefaultPort, refresh |-> FALSE, repeat |-> FALSE,
     graceful |-> FALSE, forced |-> FALSE, before |-> {}, denied |-> {},
     path |-> None, installed |-> FALSE, spawned |-> FALSE,
     connected |-> FALSE, gone |-> {}, raised |-> FALSE]

NoResp == [status |-> "none", message |-> "none", info |-> FALSE]

\* is_chrome_running(port): GET /json/version with timeout=1 answers 200.
is_chrome_running(p) == browser[p] = "up"

\* The ports whose process kill_chrome_processes matches: it compares only
\* the process name and command line with chrome, chromium, chromedriver.
ChromeProcesses(b) == {q \in Ports : b[q] # "down"}

\* The loop leaving after the first process it killed.
kill_first_only(b, denied) ==
    LET hit == ChromeProcesses(b) \ denied IN
    [q \in Ports |->
        IF q \in hit /\ (\A o \in hit : q <= o) THEN "down" ELSE b[q]]

\* kill_chrome_processes(): proc.kill() on every matching process; a process
\* the OS protects (AccessDenied) is skipped.
kill_chrome_processes(b, denied) ==
    [q \in Ports |-> IF q \in ChromeProcesses(b) \ denied THEN "down" ELSE b[q]]

\* The processes of `gone` have exited by the time the loop of
\* kill_chrome_processes reaches them.
Vanish(b, gone) == [q \in Ports |-> IF q \in gone THEN "down" ELSE b[q]]

\* The handler naming AccessDenied only.
kill_caught_denied_only == {"AccessDenied"}

\* except (psutil.NoSuchProcess, psutil.AccessDenied, psutil.ZombieProcess):
\* continue
kill_caught == {"NoSuchProcess", "AccessDenied", "ZombieProcess"}

\* What psutil raises inside the loop: AccessDenied for a process the OS
\* protects, NoSuchProcess for one that has exited.
KillExceptions(denied, gone) ==
    (IF denied # {} THEN {"AccessDenied"} ELSE {})
    \cup (IF gone # {} THEN {"NoSuchProcess"} ELSE {})

\* close_chrome_gracefully(port) when it closed every window and quit.
close_chrome_gracefully(b, p) == [b EXCEPT ![p] = "down"]

ChromePaths == {None, Some(""), Some("/opt/chrome")}

\* What the operating system can do to one start_browser call.  closes:
\* the graceful close goes through; denied: the processes kill() may not
\* touch; gone: the processes that exit while kill_chrome_processes runs;
\* installed: a Chrome exists at one of the common locations; popen: the
\* spawn succeeds; after: the new process after the 2 s wait.
LaunchEnvs ==
    [closes : BOOLEAN, denied : SUBSET Ports, gone : SUBSET Ports,
     installed : BOOLEAN, popen : BOOLEAN, after : BrowserStates]

\* The test passing although no executable is in hand.
chrome_path_unchecked(path, installed) == TRUE

\* `if not chrome_path:` after the search: chrome_path is the path of the
\* request or, when that is falsy, the first common location that exists.
chrome_path_found(path, installed) == Truthy(path) \/ installed

\* start_browser up to the call of get_chrome_info.  An exception that
\* leaves kill_chrome_processes reaches the outer handler, which prints it
\* and returns nothing: the caller gets a server error.
start_browser_launch(p, refresh, path, env) ==
    /\ spc = "idle"
    /\ env.denied \subseteq ChromeProcesses(browser)
    /\ env.gone \subseteq ChromeProcesses(browser) \ env.denied
    /\ LET closes == env.closes
           denied == env.denied
           gone == env.gone
           installed == env.installed
           popen == env.popen
           after == env.after
           graceful == refresh /\ (~is_chrome_running(p) \/ closes)
           forced   == refresh /\ ~graceful
           b1 == IF ~refresh THEN browser
                 ELSE IF ~is_chrome_running(p) THEN browser
                 ELSE IF closes THEN close_chrome_gracefully(browser, p)
                 ELSE kill_chrome_processes(Vanish(browser, gone), denied)
           raised == forced /\ KillExceptions(denied, gone) \ kill_caught # {}
           found == chrome_path_found(path, installed)
           c == [port |-> p, refresh |-> refresh,
                 repeat |-> ~refresh /\ fresh[p] /\ is_chrome_running(p),
                 graceful |-> graceful, forced |-> forced,
                 before |-> IF forced THEN ChromeProcesses(browser) ELSE {},
                 denied |-> IF forced THEN denied ELSE {},
                 path |-> path, installed |-> installed,
                 spawned |-> ~raised /\ found /\ popen,
                 connected |-> refresh /\ is_chrome_running(p),
                 gone |-> IF forced THEN gone ELSE {}, raised |-> raised]
       IN  /\ (~forced => denied = {} /\ gone = {})
           /\ (~(refresh /\ is_chrome_running(p)) => closes)
           /\ (~found => popen /\ after = "down")
           /\ (~popen => after = "down")
           /\ (b1[p] # "down" => after = "down")
           /\ call' = c
           /\ sessionData' = (raised /\ sessionData)
           /\ fresh' = [q \in Ports |-> fresh[q] /\ b1[q] = browser[q]]
           /\ IF raised
              THEN /\ browser' = b1
                   /\ spc' = "responded"
                   /\ resp' = [status |-> "500", message |-> "failed",
                               info |-> FALSE]
              ELSE IF ~found
              THEN /\ browser' = b1
                   /\ spc' = "responded"
                   /\ resp' = [status |-> "400", message |-> "not found",
                               info |-> FALSE]
              ELSE IF ~popen
              THEN /\ browser' = b1
                   /\ spc' = "responded"
                   /\ resp' = [status |-> "500", message |-> "failed",
                               info |-> FALSE]
              ELSE /\ browser' = [b1 EXCEPT
                          ![p] = IF @ = "down" THEN after ELSE @]
                   /\ spc' = "probing"
                   /\ resp' = NoResp
    /\ UNCHANGED <<dialog, dialogLog, cmdVars, stable, window, raceVars, pageVars>>

\* start_browser from the answer of get_chrome_info to its return.
\* get_chrome_info sends GET /json without a timeout: it returns when the
\* browser answers or refuses the connection.
start_browser_info ==
    /\ spc = "probing"
    /\ browser[call.port] # "mute"
    /\ spc' = "responded"
    /\ \E out \in (IF browser[call.port] = "up"
                   THEN {"info", "noinfo", "error"} ELSE {"noinfo"}) :
          /\ resp' = IF out = "error"
                     THEN [status |-> "500", message |-> "failed",
                           info |-> FALSE]
                     ELSE [status |-> "200", message |-> "started",
                           info |-> out = "info"]
          /\ fresh' = [fresh EXCEPT
                ![call.port] = out # "error" /\ browser[call.port] = "up"]
    /\ UNCHANGED <<browser, dialog, dialogLog, cmdVars, stable, window, raceVars, pageVars, call,
                   sessionData>>

\* The response of start_browser has gone out.
SupFinish ==
    /\ spc = "responded"
    /\ spc' = "idle"
    /\ call' = NoCall
    /\ resp' = NoResp
    /\ UNCHANGED <<browser, dialog, dialogLog, cmdVars, stable, window, raceVars, pageVars, fresh,
                   sessionData>>

\* A Chrome process appears, dies or stops answering on its own; a running
\* browser writes its session files.
ProcessChange(p, s) ==
    /\ browser[p] # s
    /\ browser' = [browser EXCEPT ![p] = s]
    /\ fresh' = [fresh EXCEPT ![p] = @ /\ s # "down"]
    /\ sessionData' = (sessionData \/ s = "up")
    /\ UNCHANGED <<dialog, dialogLog, cmdVars, stable, window, raceVars, pageVars, spc, call, resp>>

(***************************************************************************)
(* The page and its console buffer.  An entry of window._consoleLogs is    *)
(* the number of the push that made it, so the contents of the buffer tell *)
(* which pushes survive and in what order.  The console commands are       *)
(* modelled from the point where handle_alerts has handed them a driver.   *)
(***************************************************************************)
\* if (window._consoleLogs.length > 1000)
LogCap == 1000

\* The pushes of one run of the ring-buffer machine.
MaxPushes == 1500

\* The pushes of one run of the machine that fills the buffer by every path.
MaxFill == 1002

\* The pushes of one run of the console-command machine.
MaxCalls == 4

\* The reads and clears the trail remembers.
MaxTrail == 3

\* The slice taken from the front: the oldest entries stay.
keep_oldest(buf) ==
    IF Len(buf) > LogCap THEN SubSeq(buf, 1, LogCap) ELSE buf

\* if (length > 1000) window._consoleLogs = window._consoleLogs.slice(-1000)
limit_log_size(buf) ==
    IF Len(buf) > LogCap
    THEN SubSeq(buf, Len(buf) - LogCap + 1, Len(buf))
    ELSE buf

\* The override installed by get_console_logging_script (by = "startup") or
\* by get_console_log (by = "lazy"); listens: its error and
\* unhandledrejection listeners are installed too.
Hook(by, listens) == [by |-> by, listens |-> listens]

\* One override receiving a call: it pushes an entry, and only the start-up
\* shim then limits the size of the buffer.
HookPush(h, buf, e) ==
    IF h.by = "startup" THEN limit_log_size(Append(buf, e))
    ELSE Append(buf, e)

\* console.<method>(...) in a page with the overrides hs: the outermost one
\* runs first and then calls the function it replaced.
RECURSIVE ConsoleWrite(_, _, _)
ConsoleWrite(hs, buf, n) ==
    IF hs = <<>> THEN [logs |-> buf, pushed |-> n]
    ELSE ConsoleWrite(SubSeq(hs, 1, Len(hs) - 1),
                      HookPush(hs[Len(hs)], buf, n + 1), n + 1)

\* An error or unhandledrejection event: every installed listener pushes an
\* entry; no listener limits the size of the buffer.
RECURSIVE ListenerWrite(_, _, _)
ListenerWrite(hs, buf, n) ==
    IF hs = <<>> THEN [logs |-> buf, pushed |-> n]
    ELSE IF hs[1].listens
    THEN ListenerWrite(Tail(hs), Append(buf, n + 1), n + 1)
    ELSE ListenerWrite(Tail(hs), buf, n)

\* The trail with one more read or clear, the oldest one forgotten.
Remember(t, op, list) ==
    LET u == Append(t, [op |-> op, logs |-> list]) IN
    IF Len(u) > MaxTrail THEN Tail(u) ELSE u

\* A script of the page calls a console function.
ConsoleCall(limit) ==
    /\ pushed + Len(hooks) <= limit
    /\ IF hooks = <<>>
       THEN /\ lost' = TRUE
            /\ UNCHANGED <<logs, pushed>>
       ELSE LET w == ConsoleWrite(hooks, logs[1], pushed) IN
            /\ logs' = Some(w.logs)
            /\ pushed' = w.pushed
            /\ UNCHANGED lost
    /\ trail' = <<>>
    /\ UNCHANGED <<envVars, cmdVars, stable, window, raceVars, supVars, hooks, carried>>

\* A script of the page throws, or a promise is rejected and not handled.
ErrorEvent(limit) ==
    /\ pushed + Len(hooks) <= limit
    /\ IF \A i \in 1..Len(hooks) : ~hooks[i].listens
       THEN /\ lost' = TRUE
            /\ UNCHANGED <<logs, pushed>>
       ELSE LET w == ListenerWrite(hooks, logs[1], pushed) IN
            /\ logs' = Some(w.logs)
            /\ pushed' = w.pushed
            /\ UNCHANGED lost
    /\ trail' = <<>>
    /\ UNCHANGED <<envVars, cmdVars, stable, window, raceVars, supVars, hooks, carried>>

\* start_browser: driver.execute_script(get_console_logging_script()).  The
\* script does nothing when window._consoleLogs is already truthy (an empty
\* array is); otherwise it creates the buffer, installs its overrides and
\* listeners and ends with a console.log of its own.  A failure is only
\* printed.
inject_console_logging(limit) ==
    /\ pushed + Len(hooks) + 1 <= limit
    /\ \E ok \in BOOLEAN :
          IF ok /\ logs = None
          THEN LET hs == Append(hooks, Hook("startup", TRUE))
                   w  == ConsoleWrite(hs, <<>>, pushed)
               IN  /\ hooks' = hs
                   /\ logs' = Some(w.logs)
                   /\ pushed' = w.pushed
                   /\ trail' = <<>>
          ELSE UNCHANGED <<hooks, logs, pushed, trail>>
    /\ UNCHANGED <<envVars, cmdVars, stable, window, raceVars, supVars, lost, carried>>

\* get_console_log.  Its execute_script calls, in order: 1 the test
\* `window._consoleLogs !== undefined`; when that is false 2 the buffer and
\* the formatter, 3 the overrides, 4 the listeners; 5 the read of the
\* buffer; when the list read is empty 6 a script that calls console.log.
\* fail is the call that raises (0: none); the handler turns the exception
\* into a 500 and what the earlier calls did to the page stays.
get_console_log(limit) ==
    /\ pushed + Len(hooks) + 1 <= limit
    /\ \E fail \in 0..6 :
          LET init   == logs = None
              ran(i) == fail = 0 \/ i < fail
              l2 == IF init /\ ran(2) THEN Some(<<>>) ELSE logs
              h3 == IF init /\ ran(3)
                    THEN Append(hooks, Hook("lazy", FALSE)) ELSE hooks
              h4 == IF init /\ ran(4)
                    THEN [h3 EXCEPT ![Len(h3)].listens = TRUE] ELSE h3
              list == IF l2 = None THEN <<>> ELSE l2[1]
              diag == ran(5) /\ list = <<>> /\ ran(6)
              w == ConsoleWrite(h4, list, pushed)
          IN  /\ (fail \in 2..4 => init)
              /\ (fail = 6 => list = <<>>)
              /\ hooks' = h4
              /\ logs' = IF diag THEN Some(w.logs) ELSE l2
              /\ pushed' = IF diag THEN w.pushed ELSE pushed
              /\ lost' = (lost \/ (diag /\ h4 = <<>>))
              /\ trail' = IF fail = 0 THEN Remember(trail, "read", list)
                          ELSE <<>>
    /\ UNCHANGED <<envVars, cmdVars, stable, window, raceVars, supVars, carried>>

\* clear_console_log: window._consoleLogs = [], or a 500 when the call
\* raises.
clear_console_log ==
    /\ \E ok \in BOOLEAN :
          IF ok
          THEN /\ logs' = Some(<<>>)
               /\ trail' = Remember(trail, "clear", <<>>)
               /\ carried' = <<>>
          ELSE /\ trail' = <<>>
               /\ UNCHANGED <<logs, carried>>
    /\ UNCHANGED <<envVars, cmdVars, stable, window, raceVars, supVars, hooks, pushed, lost>>

\* go_to_url (window.location.href = url) or go_back (driver.back()) went
\* through: the page is a new document, and neither function reads the
\* buffer before or touches the new page after.
Navigate(cmd) ==
    /\ cmd \in {"go_to_url", "go_back"}
    /\ carried' = IF logs = None THEN <<>> ELSE logs[1]
    /\ logs' = None
    /\ hooks' = <<>>
    /\ lost' = FALSE
    /\ trail' = <<>>
    /\ UNCHANGED <<envVars, cmdVars, stable, window, raceVars, supVars, pushed>>

\* app.run(host='0.0.0.0', port=5553, debug=True): the development server
\* serves each request on a thread of its own, so two requests can be in
\* flight at once.
Threads == {1, 2}

\* A thread that serves no request.
NoWork ==
    [pc |-> "idle", req |-> NoRequest, runs |-> 0, abs |-> None,
     landed |-> None, status |-> "none"]

(***************************************************************************)
(* The guarded-command state machine.                                      *)
(***************************************************************************)
InitWith(r) ==
    /\ browser \in [Ports -> BrowserStates]
    /\ dialog = [p \in Ports |-> "none"]
    /\ dialogLog = {}
    /\ pc = "Idle"
    /\ req = r
    /\ attempt = 0
    /\ driver = None
    /\ opc = "start"
    /\ inner = 0
    /\ result = "none"
    /\ swallowed = <<>>
    /\ propagated = None
    /\ connects = 0
    /\ events = <<>>
    /\ body = NoBody
    /\ capture = NoCapture
    /\ tally = NoTally
    /\ spc = "idle"
    /\ call = NoCall
    /\ resp = NoResp
    /\ fresh = [p \in Ports |-> FALSE]
    /\ sessionData = FALSE
    /\ logs = None
    /\ hooks = <<>>
    /\ pushed = 0
    /\ lost = FALSE
    /\ trail = <<>>
    /\ carried = <<>>
    /\ stable = NoStable
    /\ window = [p \in Ports |-> Corner]
    /\ workers = [t \in Threads |-> NoWork]
    /\ cursor = [at |-> Corner, by |-> 0]

\* The service after start-up: no command in flight.
Init == InitWith(NoRequest)

GuardNext ==
    \/ Connect
    \/ PreAlertCheck
    \/ PostAlertCheck

ActionNext ==
    \/ click_element
    \/ double_click_element
    \/ inspect_element
    \/ type_input
    \/ scroll_page
    \/ drag_element
    \/ look
    \/ go_to_url_begin
    \/ go_to_url_tabs

\* The steps of the command in flight.
CommandNext == GuardNext \/ ActionNext

EnvNext ==
    \/ \E p \in Ports, s \in BrowserStates : BrowserChange(p, s)
    \/ \E p \in Ports : PageDialog(p)

Next ==
    \/ \E r \in Requests : Request(r)
    \/ CommandNext
    \/ Finish
    \/ EnvNext

Spec == Init /\ [][Next]_vars

(***************************************************************************)
(* The start_browser state machine.                                        *)
(***************************************************************************)
SupervisorNext ==
    \/ \E p \in Ports, refresh \in BOOLEAN, path \in ChromePaths,
          env \in LaunchEnvs : start_browser_launch(p, refresh, path, env)
    \/ start_browser_info
    \/ SupFinish
    \/ \E p \in Ports, s \in BrowserStates : ProcessChange(p, s)

SpecSupervisor == Init /\ [][SupervisorNext]_vars

(***************************************************************************)
(* The console machines: a page whose browser answers.                     *)
(***************************************************************************)
PageInit == Init /\ browser = [p \in Ports |-> "up"]

\* The start-up shim alone with the scripts of the page.
RingNext ==
    \/ inject_console_logging(MaxPushes)
    \/ ConsoleCall(MaxPushes)

SpecRing == PageInit /\ [][RingNext]_vars

\* The page, the console commands and navigation.
ConsoleNext ==
    \/ inject_console_logging(MaxCalls)
    \/ ConsoleCall(MaxCalls)
    \/ ErrorEvent(MaxCalls)
    \/ get_console_log(MaxCalls)
    \/ clear_console_log
    \/ \E cmd \in {"go_to_url", "go_back"} : Navigate(cmd)

SpecConsole == PageInit /\ [][ConsoleNext]_vars

\* One page filled through either shim, by console calls and by error
\* events.
FillNext ==
    \/ inject_console_logging(MaxFill)
    \/ get_console_log(MaxFill)
    \/ ConsoleCall(MaxFill)
    \/ ErrorEvent(MaxFill)

SpecFill == PageInit /\ [][FillNext]_vars

(***************************************************************************)
(* The URL normalisation of go_to_url as a function of its input.          *)
(***************************************************************************)
UrlInit ==
    \E u \in UrlInputs :
       /\ InitWith([NoRequest EXCEPT !.cmd = "go_to_url", !.url = Some(u)])
       /\ browser = [p \in Ports |-> "up"]

UrlNext == normalize_url

SpecUrl == UrlInit /\ [][UrlNext]_vars

(***************************************************************************)
(* establish_stable_connection against a browser that starts, dies, stops  *)
(* answering and opens dialogs.                                            *)
(***************************************************************************)
StableNext ==
    \/ \E p \in Ports, n \in 0..MaxStableRetries :
          establish_stable_connection(p, n)
    \/ stable_connect
    \/ stable_probe
    \/ stable_sleep
    \/ stable_done
    \/ EnvNext

SpecStable == Init /\ [][StableNext]_vars

(***************************************************************************)
(* Clicks by coordinates on the browser of the default port, whose window  *)
(* is moved about the screen.                                              *)
(***************************************************************************)
\* The requests that give both coordinates and no XPath.
CoordRequests ==
    {[NoRequest EXCEPT !.cmd = c, !.x = Some(x), !.y = Some(y)] :
        c \in {"click_element", "double_click_element"},
        x \in {0, MaxCoord}, y \in {0, 2}}

\* The user or the window manager moves the window of the browser on p.
MoveWindow(p, o) ==
    /\ window[p] # o
    /\ window' = [window EXCEPT ![p] = o]
    /\ UNCHANGED <<envVars, cmdVars, supVars, pageVars, stable, raceVars>>

ClickNext ==
    \/ \E r \in CoordRequests : Request(r)
    \/ GuardNext
    \/ click_element
    \/ double_click_element
    \/ Finish
    \/ \E s \in BrowserStates : BrowserChange(DefaultPort, s)
    \/ PageDialog(DefaultPort)
    \/ \E o \in Origins : MoveWindow(DefaultPort, o)

SpecClick == Init /\ [][ClickNext]_vars

(***************************************************************************)
(* Two threads of the server run the coordinate branch of click_element    *)
(* at the same time.  Neither handle_alerts nor click_element takes a      *)
(* lock, and pyautogui acts on the one mouse cursor of the host.           *)
(***************************************************************************)
RaceRequests == {r \in CoordRequests : r.cmd = "click_element"}

\* A point pyautogui.moveTo(abs_x, abs_y, duration=0.2) puts the cursor on
\* while it glides from a to b.
Midpoint(a, b) == [x |-> (a.x + b.x) \div 2, y |-> (a.y + b.y) \div 2]

\* The click goes where the command computed it.
Landing_own(cur, target) == target

\* pyautogui.click() is called without coordinates: it clicks where the
\* cursor is.
Landing(cur, target) == cur.at

\* The wrapper and the retry loop of click_element run the body again after
\* an exception, max_attempts times max_retries runs at most.
MaxRuns == max_attempts * max_retries

\* A thread receives a click by coordinates; handle_alerts connects and
\* calls click_element.
click_receive(t, r) ==
    /\ workers[t].pc = "idle"
    /\ workers' = [workers EXCEPT ![t] = [NoWork EXCEPT !.pc = "rect",
                                                        !.req = r]]
    /\ UNCHANGED <<envVars, cmdVars, supVars, pageVars, stable, window,
                   cursor>>

\* window_rect = driver.get_window_rect(); abs_x, abs_y; element_info.
click_rect(t) ==
    /\ workers[t].pc = "rect"
    /\ workers' = [workers EXCEPT
          ![t].pc = "moveTo",
          ![t].abs = Some(ScreenPoint(window[workers[t].req.port],
                                      workers[t].req))]
    /\ UNCHANGED <<envVars, cmdVars, supVars, pageVars, stable, window,
                   cursor>>

\* pyautogui.moveTo under way: the cursor is between where it was and the
\* target.
click_glide(t) ==
    /\ workers[t].pc = "moveTo"
    /\ workers' = [workers EXCEPT ![t].pc = "gliding"]
    /\ cursor' = [at |-> Midpoint(cursor.at, workers[t].abs[1]), by |-> t]
    /\ UNCHANGED <<envVars, cmdVars, supVars, pageVars, stable, window>>

\* pyautogui.moveTo returns: the cursor is on the target; time.sleep(0.1)
\* follows.
click_moveTo(t) ==
    /\ workers[t].pc = "gliding"
    /\ workers' = [workers EXCEPT ![t].pc = "click"]
    /\ cursor' = [at |-> workers[t].abs[1], by |-> t]
    /\ UNCHANGED <<envVars, cmdVars, supVars, pageVars, stable, window>>

\* pyautogui.click() and the 200 with actual_coordinates.
click_click(t) ==
    /\ workers[t].pc = "click"
    /\ workers' = [workers EXCEPT
          ![t].pc = "done",
          ![t].landed = Some(Landing(cursor, workers[t].abs[1])),
          ![t].status = "200"]
    /\ UNCHANGED <<envVars, cmdVars, supVars, pageVars, stable, window,
                   cursor>>

\* A call of the driver or of pyautogui raises: the body runs again from
\* get_window_rect, and the last exception is left to the framework.
click_raise(t) ==
    /\ workers[t].pc \in {"rect", "moveTo", "gliding", "click"}
    /\ workers' = [workers EXCEPT ![t] =
          IF workers[t].runs + 1 < MaxRuns
          THEN [@ EXCEPT !.pc = "rect", !.runs = @ + 1, !.abs = None]
          ELSE [@ EXCEPT !.pc = "done", !.runs = @ + 1, !.abs = None,
                         !.status = "500"]]
    /\ UNCHANGED <<envVars, cmdVars, supVars, pageVars, stable, window,
                   cursor>>

\* The response is sent and the thread is free again.
click_return(t) ==
    /\ workers[t].pc = "done"
    /\ workers' = [workers EXCEPT ![t] = NoWork]
    /\ UNCHANGED <<envVars, cmdVars, supVars, pageVars, stable, window,
                   cursor>>

RaceInit == Init /\ browser = [p \in Ports |-> "up"]

RaceNext ==
    \E t \in Threads :
       \/ \E r \in RaceRequests : click_receive(t, r)
       \/ click_rect(t)
       \/ click_glide(t)
       \/ click_moveTo(t)
       \/ click_click(t)
       \/ click_raise(t)
       \/ click_return(t)

SpecRace == RaceInit /\ [][RaceNext]_vars

(***************************************************************************)
(* Properties.                                                             *)
(***************************************************************************)
ClickCommands == {"click_element", "double_click_element"}

Statuses == {"200", "400", "404", "500", "504"}

\* The command left handle_alerts: it returned or it raised.
Ended == pc \in {"Done", "Failed"}

\* C1: when every connection attempt of a guarded command fails (the wrapper
\* never obtained a driver), the command has made exactly 3 connection
\* attempts when it fails, one per loop iteration before that, and never
\* more than 3.
C1_RetryBound ==
    driver = None =>
       /\ connects <= 3
       /\ (pc = "Connecting" => connects = attempt)
       /\ (pc = "Failed" => connects = 3)

\* C1 witness: a command that failed with all of its connections refused.
C1_Witness ==
    /\ pc = "Failed"
    /\ driver = None
    /\ connects = 3
    /\ propagated = Some([attempt |-> 3, step |-> "connect"])

\* What one step of a guarded command may do with an exception.
C2_Step ==
    /\ swallowed' # swallowed /\ swallowed' # <<>> =>
          /\ swallowed' = Append(swallowed, [attempt |-> attempt + 1,
                                 step |-> swallowed'[Len(swallowed')].step])
          /\ attempt + 1 \in {1, 2}
          /\ attempt' = attempt + 1
          /\ pc' = "Connecting"
          /\ propagated' = None
    /\ propagated' # propagated /\ propagated' # None =>
          /\ propagated'[1].attempt = 3
          /\ Len(swallowed') = 2
          /\ swallowed' = swallowed
          /\ pc' = "Failed"
    /\ pc' = "Failed" => propagated' # None
    /\ pc = "Connecting" /\ pc' = "PreAlertCheck" =>
          /\ connects' = connects + 1
          /\ driver' # None

\* C2: an exception of connect, of either dialog check or of the operation
\* is swallowed and followed by a fresh connection while attempts remain
\* (attempts 1 and 2); the exception of attempt 3, and only that one,
\* propagates.
C2_RetryThenPropagate == [][C2_Step]_vars

\* C2 witness: the pre-check of attempt 1 and the operation of attempt 2
\* raised and were retried, the post-check of attempt 3 raised and
\* propagated.
C2_Witness ==
    /\ pc = "Failed"
    /\ Len(swallowed) = 2
    /\ swallowed[1] = [attempt |-> 1, step |-> "pre"]
    /\ swallowed[2] = [attempt |-> 2, step |-> "op"]
    /\ propagated = Some([attempt |-> 3, step |-> "post"])

\* C3: every command ends by returning a structured result with a status;
\* no exception escapes a command.
C3_AlwaysStructuredResult ==
    Ended => result \in Statuses /\ propagated = None

\* C4: a guarded command whose request names debugging_port = P holds its
\* session on P, runs its dialog checks on P and dispatches its input events
\* to the browser on P.
C4_SessionOnRequestedPort ==
    /\ pc \in {"PreAlertCheck", "Executing", "PostAlertCheck", "Done"} =>
          driver = Some(req.port)
    /\ \A i \in 1..Len(events) : events[i].port = req.port
    /\ \A d \in dialogLog : d.port = req.port

\* C5: a guarded command that returns successfully leaves no dialog open on
\* the browser it addresses (dialogs open at its start or opened by its
\* action), and no dialog is ever accepted.
C5_DialogSuppressed ==
    /\ \A d \in dialogLog : d.how = "dismiss"
    /\ pc = "Done" /\ result = "200" => dialog[req.port] = "none"

\* C6: a command in flight is never blocked: whatever the browser does, the
\* command has a next step (a call that returns, raises or times out) until
\* it has ended.
C6_NeverBlocked ==
    pc \notin {"Idle", "Done", "Failed"} => ENABLED CommandNext

\* C7: a click or double-click request with neither a locator nor a complete
\* (x, y) pair ends with a 400 and has caused no browser interaction: no
\* connection, no dialog check, no input event.
C7_RejectedBeforeInteraction ==
    req.cmd \in ClickCommands /\ MissingTarget(req) =>
       /\ connects = 0
       /\ driver = None
       /\ pc \notin {"PreAlertCheck", "PostAlertCheck", "Failed"}
       /\ events = <<>>
       /\ (pc = "Done" => result = "400")

\* C8: a click or double-click request that carries both a locator and a
\* coordinate pair is rejected with a 400 and dispatches no click.
C8_BothAddressingsRejected ==
    /\ req.cmd \in ClickCommands
    /\ Truthy(req.xpath) /\ req.x # None /\ req.y # None
    => /\ events = <<>>
       /\ (pc \in {"PostAlertCheck", "Done"} => result = "400")

\* C9: a start_browser call on a port whose browser an earlier start_browser
\* call started, with no kill in between, reports the browser as already
\* running and spawns no process.
C9_SecondStartIsNoop ==
    spc # "idle" /\ call.repeat =>
       /\ ~call.spawned
       /\ (spc = "responded" => resp.message = "already running")

\* The step in which start_browser runs its termination routines.
TerminationStep == spc = "idle" /\ spc' # "idle"

\* The termination routines leave every process bound to another port as it
\* was.
C10_Step_Original ==
    TerminationStep =>
       \A q \in Ports \ {call'.port} : browser'[q] = browser[q]

C10_Step ==
    TerminationStep =>
       /\ ~call'.forced =>
             \A q \in Ports \ {call'.port} : browser'[q] = browser[q]
       /\ call'.forced =>
             /\ call'.before = ChromeProcesses(browser)
             /\ \A q \in Ports \ {call'.port} :
                   browser'[q] = IF q \in call'.before \ call'.denied
                                 THEN "down" ELSE browser[q]

NoExecutable == spc # "idle" /\ ~Truthy(call.path) /\ ~call.installed

\* C11: when the request supplies no executable path and no Chrome exists at
\* any of the known locations, start_browser answers with the client error
\* 400 "not found" and has spawned no browser process.
C11_NoExecutableIsClientError ==
    NoExecutable =>
       /\ spc = "responded"
       /\ resp.status = "400"
       /\ resp.message = "not found"
       /\ ~call.spawned

\* A call with an empty chrome_path and nothing installed has been answered.
C11_Witness ==
    /\ NoExecutable
    /\ call.path = Some("")
    /\ resp.status = "400"

\* look has returned an object to handle_alerts.
LookReturned ==
    req.cmd = "look" /\ pc \in {"PostAlertCheck", "Done"} /\ result # "none"

\* Every screenshot call of the run failed.
NoShotWorked ==
    /\ capture.shots # <<>>
    /\ \A i \in 1..Len(capture.shots) : ~capture.shots[i].ok

\* The object carries an image under either of its screenshot keys.
HasImage == body.screenshot \/ body.error_screenshot

\* The object carries a non-empty page text.
HasDom == body.dom_content # None /\ body.dom_content[1].len > 0

\* The order in which the capture strategies are to be tried.
StrategyOrder == <<"native", "generic", "os">>

\* C12: when the screenshot fails on every attempt while the page text is
\* readable, look returns a success status with the page text and an error
\* annotation for the screenshot.
C12_DomSurvivesScreenshotFailure ==
    (LookReturned /\ NoShotWorked /\ capture.readable) =>
       /\ result = "200"
       /\ HasDom
       /\ body.error

\* C13: when the first screenshot strategy fails and a later one succeeds,
\* look returns a success status with a non-empty screenshot, and the
\* strategies were tried in the order native frame capture, generic
\* screenshot, OS-level capture, each only after the one before it failed.
C13_FallbackChain ==
    (/\ LookReturned
     /\ Len(capture.shots) > 1
     /\ ~capture.shots[1].ok
     /\ capture.shots[Len(capture.shots)].ok) =>
       /\ result = "200"
       /\ HasImage
       /\ Len(capture.shots) <= Len(StrategyOrder)
       /\ \A i \in 1..Len(capture.shots) :
             /\ capture.shots[i].strategy = StrategyOrder[i]
             /\ (i < Len(capture.shots) => ~capture.shots[i].ok)

\* C14: a look result has a success status exactly when it carries a
\* screenshot or a page text; with neither it is a hard error.
C14_NeverBothEmpty ==
    LookReturned => (result = "200" <=> (HasImage \/ HasDom))

\* C15: the page text look returns is never longer than max_dom_size plus
\* the marker: a longer text is cut to max_dom_size characters with the
\* marker appended, a text at or under the cap is returned unchanged.
C15_DomCapped ==
    (LookReturned /\ body.dom_content # None) =>
       /\ body.dom_content[1].len <= max_dom_size + MarkerLen
       /\ body.dom_content[1] =
             generate_response(body.screenshot, capture.page[1]).dom_content

Min(a, b) == IF a < b THEN a ELSE b

\* C16: the buffer written only through the overridden console functions of
\* the start-up shim holds, after N pushes, exactly the most recent
\* min(N, 1000) entries in the order they were pushed: after 1500 pushes it
\* holds the entries 501 to 1500.
C16_RingBuffer ==
    logs # None =>
       LET k == Min(pushed, LogCap) IN
       /\ Len(logs[1]) = k
       /\ \A i \in 1..k : logs[1][i] = pushed - k + i

\* 1500 entries were pushed and the buffer starts at entry 501.
C16_Witness ==
    /\ pushed = LogCap + 500
    /\ logs # None
    /\ Len(logs[1]) = LogCap
    /\ logs[1][1] = 501

\* The list of the last read or clear of the trail.
LastList == trail[Len(trail)].logs

\* C17: the entries the buffer held before a navigation are still returned
\* by a read of the console log after it.
C17_LogsSurviveNavigation ==
    (trail # <<>> /\ trail[Len(trail)].op = "read") =>
       \A i \in 1..Len(carried) :
          \E j \in 1..Len(LastList) : LastList[j] = carried[i]

\* C18: a read leaves the buffer as it returned it and a clear leaves it
\* empty; two consecutive reads return the same list; the read right after
\* a clear returns the empty list, and so does the read after that one.
C18_ReadAndClear ==
    /\ trail # <<>> => (logs # None /\ logs[1] = LastList)
    /\ \A i \in 1..(Len(trail) - 1) :
          /\ trail[i + 1].op = "read" => trail[i + 1].logs = trail[i].logs
    /\ \A i \in 1..(Len(trail) - 2) :
          (/\ trail[i].op = "clear"
           /\ trail[i + 1].op = "read"
           /\ trail[i + 2].op = "read") => trail[i + 2].logs = <<>>

NavigationTimedOut ==
    /\ go_to_url_tabs
    /\ Len(events') = Len(events) + 1
    /\ ~events'[Len(events')].ready

\* go_to_url returned to handle_alerts: nothing was raised and the loop of
\* the wrapper did not start another attempt.
ReturnedNormally ==
    /\ pc' = "PostAlertCheck"
    /\ attempt' = attempt
    /\ swallowed' = swallowed
    /\ propagated' = None

C20_Step_Original ==
    NavigationTimedOut =>
       /\ ReturnedNormally
       /\ result' = "504"
       /\ body'.partial

C20_Step ==
    NavigationTimedOut =>
       /\ ReturnedNormally
       /\ body'.error
       /\ \/ result' = "504" /\ body'.partial
          \/ result' = "500" /\ ~body'.partial

DomAddressed ==
    \/ req.cmd \in ClickCommands /\ Addressing(req) = "xpath"
    \/ req.cmd = "scroll_page" /\ req.scroll_type = "element"
    \/ req.cmd = "drag_element"

\* A step that runs the body of the action once and in which the wait for
\* the element runs out.
LocatorTimesOut ==
    /\ DomAddressed
    /\ tally'.runs = tally.runs + 1
    /\ tally'.last = "timeout"

C21_Step == LocatorTimesOut => (pc' = "PostAlertCheck" /\ result' = "404")

\* C21: for click, double-click, scroll-to-element and drag, a locator that
\* does not resolve within the wait budget yields the result 404, not a
\* server error and not an exception.
C21_NotFoundIs404 == [][C21_Step]_vars

C22_Step ==
    (req.cmd = "click_element" /\ tally.last = "timeout") =>
       tally'.runs <= tally.runs

\* C22: a click on a locator that never appears waits for the element once:
\* after the wait of a click has run out, no loop runs the click, and with
\* it the wait, again.
C22_OneElementWait == [][C22_Step]_vars

\* type_input has answered 200 and the guard has not yet gone on.
TypeSucceeded ==
    /\ req.cmd = "type_input"
    /\ pc = "PostAlertCheck"
    /\ result = "200"

\* The input of the last keyboard call: the text that was written, or the
\* special key of the request that was pressed.
InputSent ==
    LET e == events[Len(events)]
    IN  IF e.kind = "write" THEN Some(e.keys) ELSE req.special_key

\* C23: the echo of a successful type_input is the input that was sent, the
\* text when the text was written and the special key when the key was
\* pressed, also for a request that carries both.
C23_EchoIsInputSent == TypeSucceeded => body.text = InputSent

\* The steps of one attempt of the guard.
GuardSteps == {"Connecting", "PreAlertCheck", "Executing", "PostAlertCheck"}

\* A step of the guard in which an exception reaches its handler.
GuardCaught ==
    \/ Len(swallowed') = Len(swallowed) + 1
    \/ propagated = None /\ propagated' # None

C24_Step ==
    /\ pc' = "PreAlertCheck" /\ pc # "PreAlertCheck" =>
          /\ pc = "Connecting"
          /\ connects' = connects + 1
          /\ driver' # None
          /\ attempt' = attempt
    /\ pc' = "Executing" /\ pc # "Executing" =>
          /\ pc = "PreAlertCheck"
          /\ driver # None
          /\ attempt' = attempt
          /\ result' = "none"
    /\ pc' = "PostAlertCheck" /\ pc # "PostAlertCheck" =>
          /\ pc = "Executing"
          /\ result' # "none"
          /\ attempt' = attempt
    /\ pc' = "Done" /\ pc # "Done" =>
          /\ pc = "PostAlertCheck"
          /\ result' = result
          /\ result # "none"
    /\ pc' = "Connecting" /\ pc # "Connecting" /\ pc # "Idle" =>
          /\ pc \in GuardSteps
          /\ GuardCaught
    /\ pc' = "Connecting" /\ pc = "Connecting" /\ attempt' # attempt =>
          GuardCaught
    /\ pc' = "Failed" /\ pc # "Failed" =>
          /\ pc \in GuardSteps
          /\ GuardCaught
    /\ GuardCaught =>
          /\ pc \in GuardSteps
          /\ IF attempt < max_attempts - 1
             THEN pc' = "Connecting" /\ attempt' = attempt + 1
             ELSE pc' = "Failed" /\ attempt = max_attempts - 1

\* C24: in each attempt of a guarded command the steps follow in the order
\* connect, dialog check, operation, dialog check: the operation starts only
\* from a completed dialog check that followed this attempt's connection,
\* Done is reached only from a dialog check that followed a completed
\* operation, and an exception in any of the four steps leads to Connecting
\* with the next attempt while fewer than 3 attempts are used and to Failed
\* on the third.
C24_StepOrder == [][C24_Step]_vars

\* C24 witness: the operation of attempt 1 and the second dialog check of
\* attempt 2 raised, attempt 3 went through all four steps.
C24_Witness ==
    /\ pc = "Done"
    /\ result = "200"
    /\ attempt = 2
    /\ Len(swallowed) = 2
    /\ swallowed[1].step = "op"
    /\ swallowed[2].step = "post"

\* C25: retry happens at the granularity of the whole call only: the body
\* of the action of one command runs at most max_attempts (3) times.
C25_BodyRunsAtMostThrice == tally.runs <= max_attempts

\* A step in which a driver or keyboard call of the action raises, in a
\* command other than click_element, whose own loop is the subject of C25.
ActionRaises ==
    /\ req.cmd # "click_element"
    /\ tally'.runs # tally.runs \/ tally'.last # tally.last
    /\ tally'.last = "error"

C26_Step ==
    ActionRaises /\ attempt < max_attempts - 1 =>
       /\ pc' = "Connecting"
       /\ attempt' = attempt + 1
       /\ Len(swallowed') = Len(swallowed) + 1

\* C26: for every guarded command an exception raised inside the action
\* makes the guard retry the whole call while attempts remain.
C26_ActionFailureIsRetried == [][C26_Step]_vars

\* The commands whose action dispatches one input event when it succeeds.
OneEventCommands ==
    {"click_element", "double_click_element", "go_to_url", "scroll_page",
     "drag_element"}

\* C27 as claimed: within one guarded command the input event of the action
\* is dispatched at most once; a failing second dialog check does not run
\* the action again.
C27_DispatchedAtMostOnce ==
    req.cmd \in OneEventCommands => Len(events) <= 1

\* C27: within one guarded command the input event of the action is
\* dispatched at most once per attempt, so at most max_attempts times: an
\* exception of the second dialog check discards the result of the action
\* and the next attempt runs the action again.
C27_DispatchedOncePerAttempt ==
    req.cmd \in OneEventCommands =>
       /\ Len(events) <= attempt + 1
       /\ Len(events) <= max_attempts
       /\ pc \in {"Connecting", "PreAlertCheck", "Executing"} =>
             /\ Len(events) <= attempt
             /\ result = "none"
       /\ pc = "Failed" => result = "none"

\* C27 witness: a click that was dispatched in each of the three attempts,
\* the first two followed by a failing dialog check.
C27_Witness ==
    /\ req.cmd = "click_element"
    /\ pc = "Done"
    /\ result = "200"
    /\ Len(events) = 3
    /\ Len(swallowed) = 2
    /\ \A i \in 1..2 : swallowed[i].step = "post"

\* C28: the driver the guard passes to the action has answered a read of
\* document.readyState since its connection was opened.
C28_HandleWasProbed ==
    pc = "Executing" /\ inner = 0 => tally.probed

\* The number of calls of one kind establish_stable_connection has made.
StableCalls(what) ==
    Cardinality({i \in DOMAIN stable.trace : stable.trace[i].call = what})

\* Attempt a of the call in flight ended in an exception.
AttemptFailed(a) ==
    \E i \in DOMAIN stable.trace :
       /\ stable.trace[i].attempt = a
       /\ stable.trace[i].call # "sleep"
       /\ ~stable.trace[i].ok

\* C29: establish_stable_connection(port, max_retries) returns the driver
\* of the first attempt whose webdriver.Chrome call and readyState probe
\* both succeed and calls nothing after it; when max_retries attempts have
\* failed it raises the exception of the last attempt, having connected
\* exactly max_retries times, with one sleep between consecutive attempts
\* and none after the last.
C29_StableConnection ==
    LET t == stable.trace
        n == stable.max_retries
        last == t[Len(t)]
    IN  /\ StableCalls("connect") <= n
        /\ \A i \in DOMAIN t :
              /\ t[i].call = "sleep" =>
                    /\ i > 1
                    /\ ~t[i - 1].ok
                    /\ t[i - 1].attempt = t[i].attempt
                    /\ i < Len(t) => /\ t[i + 1].call = "connect"
                                     /\ t[i + 1].attempt = t[i].attempt + 1
              /\ t[i].call = "connect" /\ i > 1 => t[i - 1].call = "sleep"
        /\ stable.pc = "returned" =>
              /\ Len(t) >= 2
              /\ last = [call |-> "probe", attempt |-> stable.attempt,
                         ok |-> TRUE]
              /\ t[Len(t) - 1] = [call |-> "connect",
                                  attempt |-> stable.attempt, ok |-> TRUE]
              /\ \A a \in 0..(stable.attempt - 1) : AttemptFailed(a)
              /\ StableCalls("connect") = stable.attempt + 1
              /\ StableCalls("sleep") = stable.attempt
              /\ stable.driver = Some(stable.port)
              /\ stable.raised = None
        /\ stable.pc = "raised" /\ n > 0 =>
              /\ StableCalls("connect") = n
              /\ StableCalls("sleep") = n - 1
              /\ \A a \in 0..(n - 1) : AttemptFailed(a)
              /\ last.call # "sleep"
              /\ last.attempt = n - 1
              /\ stable.raised = Some(last)
              /\ stable.driver = None

\* C29 witness: the connection of the first attempt and the probe of the
\* second failed, each followed by a sleep, and the third attempt returned
\* the driver.
C29_Witness ==
    /\ stable.pc = "returned"
    /\ stable.max_retries = 3
    /\ stable.attempt = 2
    /\ stable.trace[1] = [call |-> "connect", attempt |-> 0, ok |-> FALSE]
    /\ stable.trace[4] = [call |-> "probe", attempt |-> 1, ok |-> FALSE]
    /\ StableCalls("sleep") = 2

\* The order in which a click on an element tries its ways of clicking.
ClickChain == <<"native", "synthetic", "os">>

\* C30: a click on an element addressed by a locator is dispatched by the
\* first way of the chain native, synthetic, OS-level that works: an
\* OS-level click follows a failed native and a failed synthetic click.
C30_ClickFallbackChain ==
    \A i \in DOMAIN events :
       events[i].kind = "click" /\ events[i].by = "xpath" =>
          \E k \in DOMAIN ClickChain :
             /\ events[i].strategy = ClickChain[k]
             /\ events[i].after = SubSeq(ClickChain, 1, k - 1)

\* A step that dispatches the click of a command addressed by coordinates.
CoordClickDispatched ==
    /\ req.cmd \in ClickCommands
    /\ Addressing(req) = "coords"
    /\ Len(events') = Len(events) + 1

C31_Step ==
    CoordClickDispatched =>
       LET e == events'[Len(events')]
           wx == window[e.port].x
           wy == window[e.port].y
       IN  /\ e.kind = IF req.cmd = "click_element" THEN "click"
                       ELSE "doubleClick"
           /\ e.strategy = "os"
           /\ e.at = Some([x |-> wx + req.x[1], y |-> wy + req.y[1]])
           /\ result' = "200"
           /\ body'.actual_coordinates = e.at

\* C31: a click or double click by coordinates (x, y) on a browser whose
\* window is at (wx, wy) on the screen is dispatched as an OS-level click
\* at exactly (wx + x, wy + y), also when x or y is 0, and the result
\* reports that point as the actual coordinates.
C31_ClickAtWindowPlusOffset == [][C31_Step]_vars

\* C31 witness: a click at (0, 0) of a window away from the corner of the
\* screen landed on the origin of the window and was reported there.
C31_Witness ==
    /\ req.cmd = "click_element"
    /\ req.x = Some(0) /\ req.y = Some(0)
    /\ pc = "Done"
    /\ result = "200"
    /\ events # <<>>
    /\ events[Len(events)].window = [x |-> MaxOrigin, y |-> 1]
    /\ events[Len(events)].at = Some([x |-> MaxOrigin, y |-> 1])
    /\ body.actual_coordinates = Some([x |-> MaxOrigin, y |-> 1])

\* C32: in every state of a page the console log buffer holds at most 1000
\* entries, whichever shim is installed and whether the entries come from
\* console calls or from the error and unhandledrejection listeners.
C32_BufferCapped == logs # None => Len(logs[1]) <= LogCap

\* A console call of a page whose context carries the marker appends one
\* entry.
C33_Step ==
    ConsoleCall(MaxCalls) /\ logs # None =>
       /\ Len(hooks) <= 1
       /\ pushed' = pushed + 1
       /\ Len(logs'[1]) = Len(logs[1]) + 1

\* C33: after any sequence of start-up injection, get_console_log and
\* clear_console_log on one page the console functions are wrapped at most
\* once, and a console call appends exactly one entry to the buffer.
C33_OneEntryPerCall == [][C33_Step]_vars

\* C34: a page context that carries the marker window._consoleLogs has the
\* console override installed, also when the marker was written by
\* clear_console_log on a page without a shim and get_console_log was
\* called after it.
C34_MarkerImpliesOverride ==
    /\ logs # None => hooks # <<>>
    /\ (/\ Len(trail) >= 2
        /\ trail[Len(trail) - 1].op = "clear"
        /\ trail[Len(trail)].op = "read") => hooks # <<>>

C35_Step ==
    TerminationStep =>
       LET c == call' IN
       /\ c.refresh /\ ~is_chrome_running(c.port) =>
             /\ c.graceful
             /\ ~c.connected
             /\ ~c.forced
             /\ \A q \in Ports \ {c.port} : browser'[q] = browser[q]
       /\ c.forced =>
             /\ c.refresh
             /\ c.connected
             /\ ~c.graceful
       /\ ~c.refresh => ~c.graceful /\ ~c.connected /\ ~c.forced
       /\ ~c.raised
       /\ \A q \in c.gone : browser'[q] = "down" \/ q = c.port

\* C35: the termination routines are safe when nothing is running:
\* close_chrome_gracefully reports success and opens no connection when no
\* browser answers on the port; kill_chrome_processes is called, with
\* refresh enabled, only after close_chrome_gracefully reported failure;
\* and it raises nothing, also when the matching processes exit while it
\* runs or the OS protects them.
C35_TerminationIsSafe == [][C35_Step]_vars

\* C35 witness: the graceful close failed, every Chrome process exited
\* before kill_chrome_processes reached it, and start_browser went on to
\* start the browser.
C35_Witness ==
    /\ spc = "responded"
    /\ call.forced
    /\ call.before # {}
    /\ call.gone = call.before
    /\ call.spawned
    /\ resp.status = "200"

C36_Step ==
    (TerminationStep /\ resp'.status = "400" /\ resp'.message = "not found")
       => /\ browser' = browser
          /\ sessionData' = sessionData

\* C36: a start_browser call that fails because no browser executable is
\* found leaves the system as it was: no running browser was closed or
\* killed and no session data of the profile was removed, with or without
\* refresh_enabled.
C36_FailedStartChangesNothing == [][C36_Step]_vars

\* The request names a special key that special_keys_map does not hold and
\* that is not a letter, alone or in a combination.
NamesUnsupportedKey(r) ==
    /\ TruthyKey(r.special_key)
    /\ \E i \in DOMAIN r.special_key[1] :
          r.special_key[1][i] \notin DOMAIN special_keys_map \cup {"A"}

\* C37: a type_input request that names an unsupported special key, alone
\* or in a combination, is answered with 400 and has injected no keyboard
\* event, the select-all and delete of clear_first included (a keyboard
\* call that raises is answered with 500 instead).
C37_UnsupportedKeyInjectsNothing ==
    /\ req.cmd = "type_input"
    /\ NamesUnsupportedKey(req)
    /\ pc = "PostAlertCheck"
    /\ result # "500"
    => result = "400" /\ events = <<>>

\* C38: when go_to_url has returned, on the success path, the timeout path
\* and the error path alike, no handle it opened for the active tab is
\* still open.
C38_NavigateReleasesHandles ==
    req.cmd = "go_to_url" /\ pc \in {"PostAlertCheck", "Done"} =>
       tally.open = 0

\* Thread t performs its click in this step.
Clicks(t) == workers[t].pc = "click" /\ workers'[t].status = "200"

C39_Step ==
    \A t \in Threads :
       Clicks(t) =>
          /\ workers'[t].landed = Some(cursor.at)
          /\ cursor.by = t => workers'[t].landed = workers[t].abs

\* C39 (amended): clicks by coordinates that overlap are not serialised.  A
\* click lands where the cursor is at that moment, wherever the command
\* that touched the cursor last has put it; it lands on the position its
\* own command computed when no other command has touched the cursor since
\* its own moveTo returned.
C39_ClickLandsUnderCursor == [][C39_Step]_vars

\* C39 witness: two commands overlapped and one of them clicked on the
\* position the other had moved the cursor to.
C39_Witness ==
    \E t, u \in Threads :
       /\ t # u
       /\ workers[t].status = "200"
       /\ workers[u].pc = "click"
       /\ workers[t].landed = workers[u].abs
       /\ workers[t].landed # workers[t].abs

\* C39 as stated: the click of every command lands on the screen position
\* to which that same command moved the cursor.
C39_ClickLandsOnOwnTarget ==
    \A t \in Threads :
       workers[t].status = "200" => workers[t].landed = workers[t].abs

====
